---- MODULE Spec2Model ----
(***************************************************************************)
(* The inline suggestion annotation and diff-review engine of the Editor   *)
(* component (src/components/Editor.tsx) together with the App state that  *)
(* feeds it (src/App.tsx).                                                 *)
(*                                                                         *)
(* Strings are modelled as sequences of tokens.  A token is a run of       *)
(* characters; the tokens are chosen so that a substring match on the      *)
(* characters is exactly a subsequence match on the tokens: every run of   *)
(* characters that the document alphabet shares with the markup (the word  *)
(* "span") is a token of its own wherever it occurs in the markup.         *)
(* The DOM is a flat sequence of nodes in document order: text nodes,      *)
(* element start and end nodes, and the void <br>.                         *)
(***************************************************************************)
EXTENDS Integers, Sequences, FiniteSets, TLC

(***************************************************************************)
(* Bounds of the model.                                                    *)
(***************************************************************************)
\* most events of the user and of the network in a behaviour: every keystroke
\* and every showDiffView adds nodes to the document, which grows without bound
\* otherwise
MaxEvents == 7

\* activeSuggestionIndex when no card is active (null in the code)
NULL == -1

(***************************************************************************)
(* Tokens.                                                                 *)
(***************************************************************************)
HeRanQuickly == "He ran quickly"
ToTheStore == " to the store."
HeSprinted == "He sprinted"
SpanWord == "span"
\* a passage long enough for the timer of App.tsx:69
LongPassage ==
  "The rain had not let up for three days, and the river behind the old mill was already over the lower path. "

\* a phrase that holds the replacement pattern $' of String.prototype.replace,
\* and what stands before and after the pattern in it
DollarSign == "the '$' sign"
DollarHead == "the '"
DollarTail == " sign"

\* what the user can type; none of these holds <, >, &, a double quote or $
Alphabet == {HeRanQuickly, ToTheStore, SpanWord}

\* the pieces of the tags the code writes, Editor.tsx:84, 164-167, 202
LT == "<"
LTSlash == "</"
GT == ">"
TagEnd == "\">"
MarkerAttrA == " class=\"critique-marker\" id=\"marker-"
MarkerAttrB == "\" data-index=\""
DiffAttrA == " class=\"diff-view-container\" id=\"diff-"
DiffAttrB == "\" data-original=\""
DelAttr == " class=\"diff-del\">"
InsAttr == " class=\"diff-ins\">"
POpenTag == "<p>"
PCloseTag == "</p>"
BrTag == "<br>"
\* the line breaks and indentation inside the template literal, Editor.tsx:163-168
WS16 == "\n                "
WS20 == "\n                    "
WS14 == "\n              "

\* String.length of the tokens that can reach editorContent
CharLen(t) ==
  CASE t = HeRanQuickly -> 14
    [] t = ToTheStore -> 14
    [] t = HeSprinted -> 11
    [] t = SpanWord -> 4
    [] t = LongPassage -> 107
    [] t = DollarSign -> 12
    [] t = DollarHead -> 5
    [] t = DollarTail -> 5
    [] t = WS16 -> 17
    [] t = WS20 -> 21
    [] t = WS14 -> 15
    [] t = MarkerAttrA -> 36
    [] t = MarkerAttrB -> 14
    [] t = TagEnd -> 2
    [] t = LTSlash -> 2
    [] OTHER -> 1

\* indices that can appear in an id
Indices == 0..9
Digit(i) == ToString(i)
IsDigit(t) == \E i \in Indices : Digit(i) = t
DigitValue(t) == CHOOSE i \in Indices : Digit(i) = t

(***************************************************************************)
(* Sequences of tokens: String.prototype.includes and .replace.            *)
(***************************************************************************)
RECURSIVE Concat(_)
Concat(ss) == IF ss = <<>> THEN <<>> ELSE Head(ss) \o Concat(Tail(ss))

\* the first index at which needle occurs in hay, 0 when it does not
IndexOf(hay, needle) ==
  LET n == Len(needle)
      hits == {i \in 1..(Len(hay) - n + 1) : SubSeq(hay, i, i + n - 1) = needle}
  IN IF hits = {} THEN 0 ELSE CHOOSE i \in hits : \A j \in hits : i <= j

Includes(hay, needle) == IndexOf(hay, needle) # 0

\* the replacement string of String.prototype.replace: $' in it stands for the
\* portion of the string that follows the match
RECURSIVE ExpandPatterns(_, _)
ExpandPatterns(by, after) ==
  IF by = <<>> THEN <<>>
  ELSE (IF Head(by) = DollarSign THEN <<DollarHead>> \o after \o <<DollarTail>>
        ELSE <<Head(by)>>) \o ExpandPatterns(Tail(by), after)

\* hay.replace(needle, by): the first occurrence only
ReplaceFirst(hay, needle, by) ==
  LET i == IndexOf(hay, needle)
      after == SubSeq(hay, i + Len(needle), Len(hay))
  IN IF i = 0 THEN hay
     ELSE SubSeq(hay, 1, i - 1) \o ExpandPatterns(by, after) \o after

(***************************************************************************)
(* DOM nodes.                                                              *)
(***************************************************************************)
Txt(s) == [k |-> "text", s |-> s]
Open(tag, cls, id, index, orig) ==
  [k |-> "open", tag |-> tag, cls |-> cls, id |-> id, index |-> index, orig |-> orig]
Close(tag) == [k |-> "close", tag |-> tag]
Br == [k |-> "br"]

POpen == Open("p", "", <<>>, -1, <<>>)
MarkerOpen(d1, d2) == Open("span", "critique-marker", <<"marker", d1>>, d2, <<>>)
DiffOpen(d, orig) == Open("span", "diff-view-container", <<"diff", d>>, -1, orig)
DelOpen == Open("span", "diff-del", <<>>, -1, <<>>)
InsOpen == Open("span", "diff-ins", <<>>, -1, <<>>)

TxtSeq(toks) == [i \in 1..Len(toks) |-> Txt(toks[i])]

IsOpen(n) == n.k = "open"
IsText(n) == n.k = "text"

\* the end node of the element that starts at i
RECURSIVE MatchFrom(_, _, _)
MatchFrom(dom, j, depth) ==
  IF j > Len(dom) THEN Len(dom)
  ELSE IF dom[j].k = "open" THEN MatchFrom(dom, j + 1, depth + 1)
  ELSE IF dom[j].k = "close" THEN
    IF depth = 0 THEN j ELSE MatchFrom(dom, j + 1, depth - 1)
  ELSE MatchFrom(dom, j + 1, depth)

MatchClose(dom, i) == MatchFrom(dom, i + 1, 0)

\* the tokens of the text nodes among dom[from..to]
RECURSIVE TextOf(_, _, _)
TextOf(dom, from, to) ==
  IF from > to THEN <<>>
  ELSE (IF dom[from].k = "text" THEN <<dom[from].s>> ELSE <<>>) \o TextOf(dom, from + 1, to)

\* Node.textContent of the element that starts at i
TextContent(dom, i) == TextOf(dom, i, MatchClose(dom, i))

\* the Document's plain text, markup ignored
PlainText(dom) == TextOf(dom, 1, Len(dom))

\* document.getElementById: the first element in document order, 0 for null
GetElementById(dom, id) ==
  LET hits == {i \in 1..Len(dom) : dom[i].k = "open" /\ dom[i].id = id}
  IN IF hits = {} THEN 0 ELSE CHOOSE i \in hits : \A j \in hits : i <= j

\* dom with the element that starts at i replaced by the nodes in by
ReplaceElement(dom, i, by) ==
  SubSeq(dom, 1, i - 1) \o by \o SubSeq(dom, MatchClose(dom, i) + 1, Len(dom))

(***************************************************************************)
(* Element.innerHTML, read: the HTML serialisation of the DOM.             *)
(***************************************************************************)
\* a text node's data, escaped: < and > become &lt; and &gt;
Escape(s) ==
  CASE s = LT -> "&lt;"
    [] s = TagEnd -> "\"&gt;"
    [] OTHER -> s

SerializeNode(n) ==
  CASE n.k = "text" -> <<Escape(n.s)>>
    [] n.k = "br" -> <<BrTag>>
    [] n.k = "close" -> IF n.tag = "p" THEN <<PCloseTag>> ELSE <<LTSlash, SpanWord, GT>>
    [] n.k = "open" ->
         CASE n.tag = "p" -> <<POpenTag>>
           [] n.cls = "critique-marker" ->
                <<LT, SpanWord, MarkerAttrA, Digit(n.id[2]), MarkerAttrB, Digit(n.index), TagEnd>>
           [] n.cls = "diff-view-container" ->
                <<LT, SpanWord, DiffAttrA, Digit(n.id[2]), DiffAttrB>> \o n.orig \o <<TagEnd>>
           [] n.cls = "diff-del" -> <<LT, SpanWord, DelAttr>>
           [] n.cls = "diff-ins" -> <<LT, SpanWord, InsAttr>>

Serialize(dom) == Concat([i \in 1..Len(dom) |-> SerializeNode(dom[i])])

(***************************************************************************)
(* Element.innerHTML and outerHTML, written: the HTML parser.              *)
(***************************************************************************)
At(toks, i) == IF i <= Len(toks) THEN toks[i] ELSE ""

IsMarkerTag(toks, i) ==
  /\ At(toks, i) = LT /\ At(toks, i + 1) = SpanWord /\ At(toks, i + 2) = MarkerAttrA
  /\ IsDigit(At(toks, i + 3)) /\ At(toks, i + 4) = MarkerAttrB
  /\ IsDigit(At(toks, i + 5)) /\ At(toks, i + 6) = TagEnd

IsDiffTag(toks, i) ==
  /\ At(toks, i) = LT /\ At(toks, i + 1) = SpanWord /\ At(toks, i + 2) = DiffAttrA
  /\ IsDigit(At(toks, i + 3)) /\ At(toks, i + 4) = DiffAttrB
  /\ \E j \in (i + 5)..Len(toks) : toks[j] = TagEnd

\* the token that ends the data-original attribute and the tag
DiffTagEnd(toks, i) == CHOOSE j \in (i + 5)..Len(toks) :
  toks[j] = TagEnd /\ \A m \in (i + 5)..(j - 1) : toks[m] # TagEnd

IsPlainTag(toks, i, attr) ==
  At(toks, i) = LT /\ At(toks, i + 1) = SpanWord /\ At(toks, i + 2) = attr

IsEndTag(toks, i) ==
  At(toks, i) = LTSlash /\ At(toks, i + 1) = SpanWord /\ At(toks, i + 2) = GT

\* the end nodes of every element still open, innermost first
RECURSIVE CloseAll(_)
CloseAll(stack) ==
  IF stack = <<>> THEN <<>> ELSE <<Close(Head(stack))>> \o CloseAll(Tail(stack))

\* stack: the tags of the open elements, innermost first
RECURSIVE ParseFrom(_, _, _, _)
ParseFrom(toks, i, stack, out) ==
  IF i > Len(toks) THEN out \o CloseAll(stack)
  ELSE LET t == toks[i] IN
    CASE t = POpenTag -> ParseFrom(toks, i + 1, <<"p">> \o stack, Append(out, POpen))
      [] t = PCloseTag ->
           \* the end tag of p also ends every element open inside the p
           IF \E j \in 1..Len(stack) : stack[j] = "p"
           THEN LET j == CHOOSE m \in 1..Len(stack) :
                           stack[m] = "p" /\ \A q \in 1..(m - 1) : stack[q] # "p"
                IN ParseFrom(toks, i + 1, SubSeq(stack, j + 1, Len(stack)),
                             out \o CloseAll(SubSeq(stack, 1, j)))
           \* with no p open, the end tag stands for an empty <p></p>
           ELSE ParseFrom(toks, i + 1, stack, out \o <<POpen, Close("p")>>)
      [] t = BrTag -> ParseFrom(toks, i + 1, stack, Append(out, Br))
      [] t = LT ->
           IF IsMarkerTag(toks, i) THEN
             ParseFrom(toks, i + 7, <<"span">> \o stack,
                       Append(out, MarkerOpen(DigitValue(toks[i + 3]), DigitValue(toks[i + 5]))))
           ELSE IF IsDiffTag(toks, i) THEN
             LET e == DiffTagEnd(toks, i) IN
             ParseFrom(toks, e + 1, <<"span">> \o stack,
                       Append(out, DiffOpen(DigitValue(toks[i + 3]), SubSeq(toks, i + 5, e - 1))))
           ELSE IF IsPlainTag(toks, i, DelAttr) THEN
             ParseFrom(toks, i + 3, <<"span">> \o stack, Append(out, DelOpen))
           ELSE IF IsPlainTag(toks, i, InsAttr) THEN
             ParseFrom(toks, i + 3, <<"span">> \o stack, Append(out, InsOpen))
           ELSE
             \* "<" not followed by a letter is a parse error and stays a character
             ParseFrom(toks, i + 1, stack, Append(out, Txt(LT)))
      [] t = LTSlash /\ IsEndTag(toks, i) ->
           \* an end tag with no span open up to the enclosing p is ignored
           IF stack # <<>> /\ Head(stack) = "span"
           THEN ParseFrom(toks, i + 3, Tail(stack), Append(out, Close("span")))
           ELSE ParseFrom(toks, i + 3, stack, out)
      [] t = "&lt;" -> ParseFrom(toks, i + 1, stack, Append(out, Txt(LT)))
      [] t = "\"&gt;" -> ParseFrom(toks, i + 1, stack, Append(out, Txt(TagEnd)))
      [] OTHER -> ParseFrom(toks, i + 1, stack, Append(out, Txt(t)))

Parse(toks) == ParseFrom(toks, 1, <<>>, <<>>)

(***************************************************************************)
(* Injection, Editor.tsx:53-92.                                            *)
(***************************************************************************)
\* Editor.tsx:67-70: every .critique-marker becomes a text node of its textContent
RECURSIVE StripMarkers(_, _)
StripMarkers(d, i) ==
  IF i > Len(d) THEN <<>>
  ELSE IF d[i].k = "open" /\ d[i].cls = "critique-marker"
       THEN TxtSeq(TextContent(d, i)) \o StripMarkers(d, MatchClose(d, i) + 1)
       ELSE <<d[i]>> \o StripMarkers(d, i + 1)

\* Editor.tsx:72-76: every .diff-view-container becomes a text node of its
\* data-original attribute, or of its textContent when the attribute is empty
RECURSIVE StripDiffs(_, _)
StripDiffs(d, i) ==
  IF i > Len(d) THEN <<>>
  ELSE IF d[i].k = "open" /\ d[i].cls = "diff-view-container"
       THEN LET original == IF d[i].orig # <<>> THEN d[i].orig ELSE TextContent(d, i)
            IN IF original # <<>>
               THEN TxtSeq(original) \o StripDiffs(d, MatchClose(d, i) + 1)
               ELSE <<d[i]>> \o StripDiffs(d, i + 1)
       ELSE <<d[i]>> \o StripDiffs(d, i + 1)

\* Editor.tsx:84 and 202: the marker span around a suggestion's originalText
HighlightHTML_NextIndex(index, originalText) ==
  <<LT, SpanWord, MarkerAttrA, Digit(index + 1), MarkerAttrB, Digit(index + 1), TagEnd>>
    \o originalText \o <<LTSlash, SpanWord, GT>>

HighlightHTML(index, originalText) ==
  <<LT, SpanWord, MarkerAttrA, Digit(index), MarkerAttrB, Digit(index), TagEnd>>
    \o originalText \o <<LTSlash, SpanWord, GT>>

\* Editor.tsx:81-87: suggestions.forEach from index on, on the HTML string
RECURSIVE ApplyHighlights(_, _, _)
ApplyHighlights(content, suggs, index) ==
  IF index >= Len(suggs) THEN content
  ELSE LET s == suggs[index + 1] IN
       ApplyHighlights(
         IF Includes(content, s.originalText)
         THEN ReplaceFirst(content, s.originalText, HighlightHTML(index, s.originalText))
         ELSE content,
         suggs, index + 1)

\* Editor.tsx:60-89: the new DOM of the editor
Inject(d, suggs) ==
  LET tempDiv == Parse(Serialize(d))
      cleaned == StripDiffs(StripMarkers(tempDiv, 1), 1)
  IN Parse(ApplyHighlights(Serialize(cleaned), suggs, 0))

(***************************************************************************)
(* calculatePositions, Editor.tsx:97-119.                                  *)
(***************************************************************************)
\* the marker or, failing that, the Diff View of suggestion index; 0 for null
Locate(d, index) ==
  IF GetElementById(d, <<"marker", index>>) # 0
  THEN GetElementById(d, <<"marker", index>>)
  ELSE GetElementById(d, <<"diff", index>>)

\* markerRect.top - containerRect.top, in lines: the line breaks in front of the
\* anchor (white-space: pre-wrap, Editor.tsx:290), on a page wide enough for
\* the text between two of them
RelativeTop(d, at) ==
  Cardinality({i \in 1..(at - 1) :
                 \/ d[i].k = "br"
                 \/ d[i].k = "text" /\ d[i].s \in {WS16, WS20, WS14}})

RECURSIVE PositionsFrom(_, _, _)
PositionsFrom(suggs, d, index) ==
  IF index >= Len(suggs) THEN <<>>
  ELSE (IF Locate(d, index) # 0
        THEN <<[index |-> index, top |-> RelativeTop(d, Locate(d, index)),
                suggestion |-> suggs[index + 1]]>>
        ELSE <<>>) \o PositionsFrom(suggs, d, index + 1)

calculatePositions(suggs, d) == PositionsFrom(suggs, d, 0)

(***************************************************************************)
(* The templates of showDiffView and rejectSuggestion.                     *)
(***************************************************************************)
\* Editor.tsx:163-168
DiffHTML(index, s) ==
  <<WS16, LT, SpanWord, DiffAttrA, Digit(index), DiffAttrB>> \o s.originalText \o <<TagEnd>>
    \o <<WS20, LT, SpanWord, DelAttr>> \o s.originalText \o <<LTSlash, SpanWord, GT>>
    \o <<WS20, LT, SpanWord, InsAttr>> \o s.suggestion \o <<LTSlash, SpanWord, GT>>
    \o <<WS16, LTSlash, SpanWord, GT, WS14>>

\* HTMLElement.innerText of the editor: every text node is rendered
\* (white-space: pre-wrap, Editor.tsx:290), a <br> is a line break, and two
\* line breaks stand between a paragraph and the next
RECURSIVE InnerText(_)
InnerText(d) ==
  IF d = <<>> THEN <<>>
  ELSE (CASE Head(d).k = "text" -> <<Head(d).s>>
          [] Head(d).k = "br" -> <<"\n">>
          [] Head(d).k = "close" /\ Head(d).tag = "p" /\ Tail(d) # <<>> -> <<"\n", "\n">>
          [] OTHER -> <<>>) \o InnerText(Tail(d))

RECURSIVE CharLength(_)
CharLength(text) == IF text = <<>> THEN 0 ELSE CharLen(Head(text)) + CharLength(Tail(text))

(***************************************************************************)
(* Suggestions and the batches the analysis can deliver.                   *)
(***************************************************************************)
\* uid stands for the identity of the object JSON.parse creates, geminiService.ts:111
Sugg(uid, originalText, suggestion) ==
  [uid |-> uid, originalText |-> originalText, suggestion |-> suggestion]

Batches == {
  <<Sugg(0, <<HeRanQuickly>>, <<HeSprinted>>)>>,
  <<Sugg(0, <<HeRanQuickly>>, <<HeSprinted>>), Sugg(1, <<HeRanQuickly>>, <<HeSprinted>>)>>,
  <<Sugg(0, <<HeRanQuickly>>, <<HeSprinted>>), Sugg(1, <<SpanWord>>, <<ToTheStore>>)>>,
  <<Sugg(0, <<ToTheStore>>, <<HeRanQuickly>>), Sugg(1, <<HeRanQuickly>>, <<HeSprinted>>)>> }

\* the filter comparing the texts of the suggestions, not the objects
RECURSIVE handleSuggestionHandled_ByText(_, _)
handleSuggestionHandled_ByText(prev, s) ==
  IF prev = <<>> THEN <<>>
  ELSE (IF Head(prev).originalText # s.originalText THEN <<Head(prev)>> ELSE <<>>)
         \o handleSuggestionHandled_ByText(Tail(prev), s)

\* App.tsx:41: prev.filter(item => item !== s)
RECURSIVE handleSuggestionHandled(_, _)
handleSuggestionHandled(prev, s) ==
  IF prev = <<>> THEN <<>>
  ELSE (IF Head(prev).uid # s.uid THEN <<Head(prev)>> ELSE <<>>)
         \o handleSuggestionHandled(Tail(prev), s)

(***************************************************************************)
(* State.                                                                  *)
(***************************************************************************)
VARIABLES
  dom,                    \* the children of the contentEditable div, Editor.tsx:27
  suggestions,            \* App.tsx:13
  editorContent,          \* App.tsx:11
  isAnalyzing,            \* App.tsx:15
  requests,               \* the analysis calls in flight, App.tsx:52
  cardPositions,          \* Editor.tsx:30
  activeSuggestionIndex,  \* Editor.tsx:31
  pendingInject,          \* the effect of Editor.tsx:53 is due: suggestions changed
  raf,                    \* the calculatePositions closures given to requestAnimationFrame
  autoPartnerEnabled,     \* App.tsx:16
  timer,                  \* the timeout of App.tsx:68 is pending
  externalInsertText,     \* App.tsx:14, <<>> for null
  selection,              \* App.tsx:10, NoSelection for null
  resets,                 \* the timeouts of App.tsx:157 that are pending
  last,                   \* history: the last review operation that acted
  events                  \* history: the events handled so far

\* the state of the program
program == <<dom, suggestions, editorContent, isAnalyzing, requests, cardPositions,
             activeSuggestionIndex, pendingInject, raf, autoPartnerEnabled, timer>>

state == <<program, last>>

\* the state of the insertion from the chat panel and of the Magic Menu
chat == <<externalInsertText, resets, selection>>

vars == <<state, events, chat>>

NoOp == [op |-> "none"]

\* selection is null, App.tsx:10
NoSelection == [text |-> <<>>, from |-> 0, to |-> 0]

\* App.tsx:55
CleanAlert == "Your prose looks clean! No major issues found."

\* Editor.tsx:27-39 and App.tsx:10-16: the state after construction
Constructed ==
  /\ editorContent = <<>>
  /\ isAnalyzing = FALSE
  /\ requests = <<>>
  /\ autoPartnerEnabled = FALSE
  /\ timer = FALSE

\* The user wrote more than 100 characters with Auto-Critique on, the timer of
\* App.tsx:68-72 issued an analysis call that is still in flight, and the user
\* then switched Auto-Critique off and deleted the text again: editorContent is
\* the innerText of the empty paragraph.  The model starts here as well, so
\* that a batch can arrive on a document of a few tokens.
InFlight ==
  /\ editorContent = <<"\n">>
  /\ isAnalyzing = TRUE
  /\ requests = <<[long |-> TRUE, by |-> "timer"]>>
  /\ autoPartnerEnabled = FALSE
  /\ timer = FALSE

Init ==
  /\ Constructed \/ InFlight
  /\ dom = <<POpen, Br, Close("p")>>
  /\ suggestions = <<>>
  /\ cardPositions = <<>>
  /\ activeSuggestionIndex = NULL
  /\ pendingInject = FALSE
  /\ raf = <<>>
  /\ last = NoOp
  /\ events = 0
  /\ externalInsertText = <<>>
  /\ resets = 0
  /\ selection = NoSelection

(***************************************************************************)
(* Helpers of the actions.                                                 *)
(***************************************************************************)
\* the element that holds node j as a child, 0 at the top level
Parent(d, j) ==
  LET up == {i \in 1..(j - 1) : d[i].k = "open" /\ MatchClose(d, i) > j}
  IN IF up = {} THEN 0 ELSE CHOOSE i \in up : \A m \in up : m <= i

HasBr(d) == \E i \in 1..Len(d) : d[i].k = "br"
WithoutBr(d) == SelectSeq(d, LAMBDA n : n.k # "br")

InsertAfter(d, at, n) == SubSeq(d, 1, at) \o <<n>> \o SubSeq(d, at + 1, Len(d))
RemoveAt(d, at) == SubSeq(d, 1, at - 1) \o SubSeq(d, at + 1, Len(d))

\* requestAnimationFrame(calculatePositions): the closure holds the suggestions
\* of the render that made it; a callback equal to the last one queued adds nothing
Schedule(queue, closure) ==
  IF queue # <<>> /\ queue[Len(queue)] = closure THEN queue ELSE Append(queue, closure)

\* An event of the user or of the network is handled once the effects of the
\* last render have run and the animation frame they asked for has passed.
Idle == ~pendingInject /\ raf = <<>>

\* the program handles one more event
Turn == Idle /\ events < MaxEvents /\ events' = events + 1

\* an event that is not of the chat panel
Event == Turn /\ UNCHANGED chat

(***************************************************************************)
(* The user edits the document: handleInput, Editor.tsx:213-217, and the   *)
(* MutationObserver of Editor.tsx:128-134.                                 *)
(***************************************************************************)
\* as AfterEdit, had the render that follows the edit run the effect of
\* Editor.tsx:53-92 again
AfterEdit_Reinject(d) ==
  /\ dom' = d
  /\ editorContent' = InnerText(d)
  /\ cardPositions' = calculatePositions(suggestions, d)
  /\ last' = NoOp
  /\ timer' = autoPartnerEnabled
  /\ pendingInject' = TRUE
  /\ UNCHANGED <<suggestions, isAnalyzing, requests, activeSuggestionIndex, raf,
                 autoPartnerEnabled>>

AfterEdit(d) ==
  /\ dom' = d
  /\ editorContent' = InnerText(d)
  /\ cardPositions' = calculatePositions(suggestions, d)
  /\ last' = NoOp
  \* App.tsx:65-74: editorContent changed, the timeout is set anew
  /\ timer' = autoPartnerEnabled
  /\ UNCHANGED <<suggestions, isAnalyzing, requests, activeSuggestionIndex, pendingInject, raf,
                 autoPartnerEnabled>>

\* a token is typed at the end of the paragraph; the first text replaces the
\* placeholder <br>
Type(tok) ==
  /\ Event
  /\ LET d == WithoutBr(dom) IN AfterEdit(InsertAfter(d, Len(d) - 1, Txt(tok)))

\* a typed token outside the Diff Views is deleted; an element emptied by that stays or goes with it
\* (the browsers differ), and an empty paragraph gets its placeholder back
Delete(at, dropEmpty) ==
  /\ Event
  /\ at \in 1..Len(dom)
  /\ dom[at].k = "text" /\ dom[at].s \in Alphabet
  /\ Parent(dom, at) # 0
  /\ dom[Parent(dom, at)].cls \in {"", "critique-marker"}
  /\ LET d1 == RemoveAt(dom, at)
         emptied == d1[at - 1].k = "open" /\ d1[at - 1].tag = "span" /\ d1[at].k = "close"
         d2 == IF emptied /\ dropEmpty THEN RemoveAt(RemoveAt(d1, at), at - 1) ELSE d1
         d3 == IF d2 = <<POpen, Close("p")>> THEN <<POpen, Br, Close("p")>> ELSE d2
     IN /\ (dropEmpty => emptied)
        /\ AfterEdit(d3)

(***************************************************************************)
(* The Critique button and the analysis, App.tsx:44-62, 102-104.           *)
(***************************************************************************)
\* App.tsx:46
WriteMoreAlert == "Please write a bit more before asking for a critique!"

\* App.tsx:44-52: the call up to its await; by tells who made it
\* as runProactiveAnalysis, had it no look at the length of the text
runProactiveAnalysis_Unguarded(by) ==
  /\ isAnalyzing' = TRUE
  /\ requests' = Append(requests, [long |-> CharLength(editorContent) >= 50, by |-> by])
  /\ UNCHANGED last

runProactiveAnalysis(by) ==
  IF editorContent = <<>> \/ CharLength(editorContent) < 10
  THEN /\ UNCHANGED <<isAnalyzing, requests>>
       /\ last' = [op |-> "critique-refused", alert |-> WriteMoreAlert]
  ELSE /\ isAnalyzing' = TRUE
       /\ requests' = Append(requests, [long |-> CharLength(editorContent) >= 50, by |-> by])
       /\ UNCHANGED last

\* App.tsx:102-104: the Critique button, disabled while isAnalyzing
RequestAnalysis ==
  /\ Event
  /\ ~isAnalyzing
  /\ runProactiveAnalysis("button")
  /\ UNCHANGED <<dom, suggestions, editorContent, cardPositions, activeSuggestionIndex,
                 pendingInject, raf, autoPartnerEnabled, timer>>

\* App.tsx:68-72: the timeout fires, 10 s after editorContent last changed
AutoCritique ==
  /\ Event
  /\ timer
  /\ timer' = FALSE
  /\ IF CharLength(editorContent) > 100
     THEN runProactiveAnalysis("timer")
     ELSE UNCHANGED <<isAnalyzing, requests, last>>
  /\ UNCHANGED <<dom, suggestions, editorContent, cardPositions, activeSuggestionIndex,
                 pendingInject, raf, autoPartnerEnabled>>

\* App.tsx:90-95 and 65-74: the Auto-Critique checkbox; the effect clears the
\* timeout and, when switched on, sets it
ToggleAutoCritique ==
  /\ Event
  /\ autoPartnerEnabled' = ~autoPartnerEnabled
  /\ timer' = autoPartnerEnabled'
  /\ UNCHANGED <<dom, suggestions, editorContent, isAnalyzing, requests, cardPositions,
                 activeSuggestionIndex, pendingInject, raf, last>>

\* App.tsx:53: setSuggestions(newSuggestions)
setSuggestions_Merge(prev, newSuggestions) == prev \o newSuggestions

setSuggestions(prev, newSuggestions) == newSuggestions

\* geminiService.ts:85-116: no call and [] for a text under 50 characters,
\* [] when the call fails, else what the backend answers
AnalysisResults(request) == IF request.long THEN Batches \cup {<<>>} ELSE {<<>>}

\* App.tsx:53, 60 and the render that follows: the layout effect of
\* Editor.tsx:122-123 runs calculatePositions before the effect of Editor.tsx:53
\* failed: the call threw and the catch of geminiService.ts:112-115 returned
\* []; the alert of App.tsx:54-56 is what the user is shown for an empty result
Landing(r, newSuggestions, failed) ==
  /\ r \in 1..Len(requests)
  /\ newSuggestions \in AnalysisResults(requests[r])
  /\ failed => (requests[r].long /\ newSuggestions = <<>>)
  /\ suggestions' = setSuggestions(suggestions, newSuggestions)
  /\ isAnalyzing' = FALSE
  /\ requests' = RemoveAt(requests, r)
  /\ cardPositions' = calculatePositions(suggestions', dom)
  /\ pendingInject' = TRUE
  /\ last' = [op |-> "analysis", failed |-> failed,
              alert |-> IF newSuggestions = <<>> THEN CleanAlert ELSE "",
              batch |-> newSuggestions,
              \* who made the calls that have landed, of calls in flight together
              landed |-> (IF last.op = "analysis" /\ last.left > 0 THEN last.landed ELSE <<>>)
                           \o <<requests[r].by>>,
              left |-> Len(requests) - 1]
  /\ UNCHANGED <<dom, editorContent, activeSuggestionIndex, raf, autoPartnerEnabled, timer>>

CompleteAnalysis(r, newSuggestions, failed) ==
  /\ Event
  /\ Landing(r, newSuggestions, failed)

(***************************************************************************)
(* The effect of Editor.tsx:53-92, run after a render with new suggestions.*)
(***************************************************************************)
RunEffects ==
  /\ pendingInject
  /\ UNCHANGED <<events, chat>>
  /\ pendingInject' = FALSE
  /\ IF suggestions = <<>>
     THEN /\ cardPositions' = <<>>
          /\ UNCHANGED <<dom, raf>>
     ELSE /\ dom' = Inject(dom, suggestions)
          /\ raf' = Schedule(raf, suggestions)
          /\ cardPositions' = calculatePositions(suggestions, dom')
  /\ UNCHANGED <<suggestions, editorContent, isAnalyzing, requests, activeSuggestionIndex,
                 autoPartnerEnabled, timer, last>>

\* the callbacks of one animation frame run in the order they were queued
RunFrame ==
  /\ raf # <<>>
  /\ UNCHANGED <<events, chat>>
  /\ cardPositions' = calculatePositions(raf[Len(raf)], dom)
  /\ raf' = <<>>
  /\ UNCHANGED <<dom, suggestions, editorContent, isAnalyzing, requests,
                 activeSuggestionIndex, pendingInject, autoPartnerEnabled, timer, last>>

(***************************************************************************)
(* showDiffView, acceptSuggestion, rejectSuggestion: Editor.tsx:153-207.   *)
(***************************************************************************)
\* the guards of Editor.tsx:156-162
CanShowDiff_AnySpan(index) ==
  /\ index < Len(suggestions)
  /\ GetElementById(dom, <<"marker", index>>) # 0

CanShowDiff(index) ==
  /\ index < Len(suggestions)
  /\ GetElementById(dom, <<"marker", index>>) # 0
  /\ TextContent(dom, GetElementById(dom, <<"marker", index>>))
       = suggestions[index + 1].originalText

showDiffView(index) ==
  IF CanShowDiff(index)
  THEN LET s == suggestions[index + 1]
           marker == GetElementById(dom, <<"marker", index>>)
           d == ReplaceElement(dom, marker, Parse(DiffHTML(index, s)))
       IN /\ dom' = d
          /\ activeSuggestionIndex' = index
          /\ cardPositions' = calculatePositions(suggestions, d)
          /\ last' = [op |-> "show", index |-> index, batch |-> suggestions,
                      before |-> PlainText(dom),
                      expect |-> PlainText(ReplaceElement(dom, marker, TxtSeq(s.suggestion)))]
          /\ UNCHANGED <<suggestions, editorContent, isAnalyzing, requests, pendingInject, raf,
                         autoPartnerEnabled, timer>>
  ELSE /\ UNCHANGED program
       /\ last' = [op |-> "show-refused", index |-> index]

\* the guards of Editor.tsx:179-182 and 197-200
HasDiff(index) == GetElementById(dom, <<"diff", index>>) # 0
CanResolve(index) == index < Len(suggestions) /\ HasDiff(index)

\* what follows the last operation when it was showDiffView(index)
Followed(op, index) ==
  IF last.op = "show" /\ last.index = index
  THEN [op |-> op, index |-> index, batch |-> last.batch,
        before |-> last.before, expect |-> last.expect]
  ELSE NoOp

\* as acceptSuggestion, had onSuggestionHandled been called without a look
\* at the Diff View
acceptSuggestion_Unguarded(index) ==
  IF index < Len(suggestions)
  THEN LET rest == handleSuggestionHandled(suggestions, suggestions[index + 1])
       IN /\ suggestions' = rest
          /\ activeSuggestionIndex' = NULL
          /\ raf' = Schedule(raf, suggestions)
          /\ cardPositions' = calculatePositions(rest, dom)
          /\ pendingInject' = TRUE
          /\ last' = NoOp
          /\ UNCHANGED <<dom, editorContent, isAnalyzing, requests, autoPartnerEnabled, timer>>
  ELSE UNCHANGED state

acceptSuggestion(index) ==
  IF CanResolve(index)
  THEN LET s == suggestions[index + 1]
           diffContainer == GetElementById(dom, <<"diff", index>>)
           d == ReplaceElement(dom, diffContainer, TxtSeq(s.suggestion))
           rest == handleSuggestionHandled(suggestions, s)
       IN /\ dom' = d
          /\ editorContent' = InnerText(d)
          /\ suggestions' = rest
          /\ activeSuggestionIndex' = NULL
          /\ raf' = Schedule(raf, suggestions)
          \* the render with the new suggestions: Editor.tsx:122-123, then 53-92
          /\ cardPositions' = calculatePositions(rest, d)
          /\ pendingInject' = TRUE
          /\ last' = Followed("show-accept", index)
          \* App.tsx:65-74: editorContent changed, the timeout is set anew
          /\ timer' = autoPartnerEnabled
          /\ UNCHANGED <<isAnalyzing, requests, autoPartnerEnabled>>
  ELSE /\ UNCHANGED program
       /\ last' = [op |-> "accept-refused", index |-> index]

rejectSuggestion(index) ==
  IF CanResolve(index)
  THEN LET s == suggestions[index + 1]
           diffContainer == GetElementById(dom, <<"diff", index>>)
           d == ReplaceElement(dom, diffContainer, Parse(HighlightHTML(index, s.originalText)))
       IN /\ dom' = d
          /\ activeSuggestionIndex' = NULL
          /\ raf' = Schedule(raf, suggestions)
          /\ cardPositions' = calculatePositions(suggestions, d)
          /\ last' = Followed("show-reject", index)
          /\ UNCHANGED <<suggestions, editorContent, isAnalyzing, requests, pendingInject,
                         autoPartnerEnabled, timer>>
  ELSE /\ UNCHANGED program
       /\ last' = [op |-> "reject-refused", index |-> index]

(***************************************************************************)
(* What the user can click.                                                *)
(***************************************************************************)
\* Editor.tsx:246-254: the click lands on a marker span, the innermost element
\* under the pointer, which therefore has text of its own
ClickMarker(at) ==
  /\ Event
  /\ at \in 1..Len(dom)
  /\ dom[at].k = "open" /\ dom[at].cls = "critique-marker"
  /\ \E j \in (at + 1)..Len(dom) : dom[j].k = "text" /\ Parent(dom, j) = at
  /\ dom[at].index >= 0
  /\ showDiffView(dom[at].index)

\* Editor.tsx:339-344: Review, on a card that is not the active one
ClickReview(c) ==
  /\ Event
  /\ c \in 1..Len(cardPositions)
  /\ activeSuggestionIndex # cardPositions[c].index
  /\ showDiffView(cardPositions[c].index)

\* Editor.tsx:323-330: Accept, on the active card
ClickAccept(c) ==
  /\ Event
  /\ c \in 1..Len(cardPositions)
  /\ activeSuggestionIndex = cardPositions[c].index
  /\ acceptSuggestion(cardPositions[c].index)

\* Editor.tsx:331-336: Reject, on the active card
ClickReject(c) ==
  /\ Event
  /\ c \in 1..Len(cardPositions)
  /\ activeSuggestionIndex = cardPositions[c].index
  /\ rejectSuggestion(cardPositions[c].index)

Next ==
  \/ \E tok \in Alphabet : Type(tok)
  \/ \E at \in 1..Len(dom), dropEmpty \in BOOLEAN : Delete(at, dropEmpty)
  \/ RequestAnalysis
  \/ \E r \in 1..Len(requests), b \in Batches \cup {<<>>}, failed \in BOOLEAN :
       CompleteAnalysis(r, b, failed)
  \/ RunEffects
  \/ RunFrame
  \/ \E at \in 1..Len(dom) : ClickMarker(at)
  \/ \E c \in 1..Len(cardPositions) : ClickReview(c)
  \/ \E c \in 1..Len(cardPositions) : ClickAccept(c)
  \/ \E c \in 1..Len(cardPositions) : ClickReject(c)

Spec == Init /\ [][Next]_vars

(***************************************************************************)
(* The same program with Auto-Critique in use, App.tsx:65-74, 91-96.       *)
(***************************************************************************)
\* the user wrote a passage of more than 100 characters and switched
\* Auto-Critique on
InitAuto ==
  /\ dom = <<POpen, Txt(LongPassage), Close("p")>>
  /\ editorContent = <<LongPassage>>
  /\ autoPartnerEnabled = TRUE
  /\ timer = TRUE
  /\ isAnalyzing = FALSE
  /\ requests = <<>>
  /\ suggestions = <<>>
  /\ cardPositions = <<>>
  /\ activeSuggestionIndex = NULL
  /\ pendingInject = FALSE
  /\ raf = <<>>
  /\ last = NoOp
  /\ events = 0
  /\ externalInsertText = <<>>
  /\ resets = 0
  /\ selection = NoSelection

NextAuto ==
  \/ Next
  \/ AutoCritique
  \/ ToggleAutoCritique

SpecAuto == InitAuto /\ [][NextAuto]_vars

(***************************************************************************)
(* The same program on a document that holds a replacement pattern of      *)
(* String.prototype.replace, Editor.tsx:85.                                *)
(***************************************************************************)
QuotedBatch ==
  <<Sugg(0, <<HeRanQuickly>>, <<HeSprinted>>), Sugg(1, <<DollarSign>>, <<ToTheStore>>)>>

\* the user wrote a passage that holds the phrase and asked for a critique; the
\* batch has just landed and the effect of Editor.tsx:53-92 is pending
InitQuoted ==
  /\ dom = <<POpen, Txt(LongPassage), Txt(DollarSign), Txt(HeRanQuickly), Close("p")>>
  /\ editorContent = <<LongPassage, DollarSign, HeRanQuickly>>
  /\ autoPartnerEnabled = FALSE
  /\ timer = FALSE
  /\ isAnalyzing = FALSE
  /\ requests = <<>>
  /\ suggestions = QuotedBatch
  /\ cardPositions = <<>>
  /\ activeSuggestionIndex = NULL
  /\ pendingInject = TRUE
  /\ raf = <<>>
  /\ last = [op |-> "analysis", failed |-> FALSE, alert |-> "", batch |-> QuotedBatch,
             landed |-> <<"button">>, left |-> 0]
  /\ events = 2
  /\ externalInsertText = <<>>
  /\ resets = 0
  /\ selection = NoSelection

SpecQuoted == InitQuoted /\ [][Next]_vars

(***************************************************************************)
(* The same program with events that arrive while an animation frame is    *)
(* pending. React runs the pending effects before it handles the next      *)
(* event; the callbacks given to requestAnimationFrame wait for the frame. *)
(***************************************************************************)
EventInFrame ==
  /\ ~pendingInject /\ raf # <<>> /\ events < MaxEvents /\ events' = events + 1
  /\ UNCHANGED chat

\* the answer of an analysis call arrives between a click and the next frame
LandInFrame(r, newSuggestions, failed) ==
  /\ EventInFrame
  /\ Landing(r, newSuggestions, failed)

\* Editor.tsx:137-140: the ResizeObserver of the container and the resize
\* listener of the window call the calculatePositions of the last render
Resize ==
  /\ ~pendingInject
  /\ events < MaxEvents
  /\ events' = events + 1
  /\ UNCHANGED chat
  /\ cardPositions' = calculatePositions(suggestions, dom)
  /\ UNCHANGED <<dom, suggestions, editorContent, isAnalyzing, requests, activeSuggestionIndex,
                 pendingInject, raf, autoPartnerEnabled, timer, last>>

NextFrame ==
  \/ NextAuto
  \/ \E r \in 1..Len(requests), b \in Batches \cup {<<>>}, failed \in BOOLEAN :
       LandInFrame(r, b, failed)
  \/ Resize

SpecFrame == InitAuto /\ [][NextFrame]_vars

(***************************************************************************)
(* The same program with the chat panel in use: App.tsx:155-158 and the    *)
(* effect of Editor.tsx:42-48.                                             *)
(***************************************************************************)
\* the texts the chat panel asks to insert, drafts of more than 100
\* characters (AIPanel.tsx:312): a plain one, and one that holds the
\* characters of a tag
InsertTexts == {<<LongPassage, HeRanQuickly>>, <<LongPassage, HeRanQuickly, BrTag, ToTheStore>>}

\* Editor.tsx:44-45: insertAdjacentHTML('beforeend', `<p>${externalInsert}</p>`)
InsertAdjacentHTML(d, text) == d \o Parse(<<POpenTag>> \o text \o <<PCloseTag>>)

\* App.tsx:155-158: setExternalInsertText(text), and the timeout that will
\* set it to null. The effect of Editor.tsx:42-48 runs when the value changed
\* and is not null or empty; the MutationObserver recomputes the positions.
RequestInsert(text) ==
  /\ Turn
  /\ externalInsertText' = text
  /\ resets' = resets + 1
  /\ UNCHANGED selection
  /\ IF text # externalInsertText /\ text # <<>>
     THEN /\ dom' = InsertAdjacentHTML(dom, text)
          /\ editorContent' = InnerText(dom')
          /\ cardPositions' = calculatePositions(suggestions, dom')
          /\ timer' = autoPartnerEnabled
          /\ last' = [op |-> "insert", text |-> text]
          /\ UNCHANGED <<suggestions, isAnalyzing, requests, activeSuggestionIndex,
                         pendingInject, raf, autoPartnerEnabled>>
     ELSE /\ UNCHANGED program
          /\ last' = [op |-> "insert-refused", text |-> text]

\* App.tsx:157: one of the timeouts fires; the effect runs on null and returns
ResetInsert ==
  /\ Turn
  /\ resets > 0
  /\ resets' = resets - 1
  /\ externalInsertText' = <<>>
  /\ UNCHANGED <<state, selection>>

\* critique and review of a Document written by insertions from the chat panel
NextInsert ==
  \/ RequestAnalysis
  \/ \E r \in 1..Len(requests), b \in Batches \cup {<<>>}, failed \in BOOLEAN :
       CompleteAnalysis(r, b, failed)
  \/ RunEffects
  \/ RunFrame
  \/ \E c \in 1..Len(cardPositions) : ClickReview(c)
  \/ \E text \in InsertTexts : RequestInsert(text)
  \/ ResetInsert

SpecInsert == Init /\ [][NextInsert]_vars

(***************************************************************************)
(* The Magic Menu: the selection is rewritten in place, Editor.tsx:219-239,*)
(* MagicMenu.tsx:27-40, geminiService.ts:53-79, App.tsx:22-37.             *)
(***************************************************************************)
ToTheStoreTrimmed == "to the store."
LongPassageTrimmed ==
  "The rain had not let up for three days, and the river behind the old mill was already over the lower path."

\* String.prototype.trim: white space goes from both ends of the string
IsBlank(t) == t \in {WS16, WS20, WS14, "\n"}
TrimTokenStart(t) == IF t = ToTheStore THEN ToTheStoreTrimmed ELSE t
TrimTokenEnd(t) == IF t = LongPassage THEN LongPassageTrimmed ELSE t

RECURSIVE TrimStart(_)
TrimStart(text) ==
  IF text = <<>> THEN <<>>
  ELSE IF IsBlank(Head(text)) THEN TrimStart(Tail(text))
  ELSE <<TrimTokenStart(Head(text))>> \o Tail(text)

RECURSIVE TrimEnd(_)
TrimEnd(text) ==
  IF text = <<>> THEN <<>>
  ELSE IF IsBlank(text[Len(text)]) THEN TrimEnd(SubSeq(text, 1, Len(text) - 1))
  ELSE SubSeq(text, 1, Len(text) - 1) \o <<TrimTokenEnd(text[Len(text)])>>

Trim(text) == TrimEnd(TrimStart(text))

\* the user can drag over text nodes that stand side by side in one element
Selectable(d, from, to) ==
  /\ from \in 1..Len(d) /\ to \in from..Len(d)
  /\ \A n \in from..to : d[n].k = "text" /\ Parent(d, n) = Parent(d, from)

\* Editor.tsx:219-239: the text of the selection is trimmed, its range is not
handleSelection(from, to) ==
  LET text == Trim(TextOf(dom, from, to))
  IN selection' = IF text # <<>> THEN [text |-> text, from |-> from, to |-> to]
                  ELSE NoSelection

\* mouseup or keyup in the editor with a range selected
Select(from, to) ==
  /\ Turn
  /\ Selectable(dom, from, to)
  /\ handleSelection(from, to)
  /\ UNCHANGED <<state, externalInsertText, resets>>

\* a click collapses the selection, or the menu is closed: Editor.tsx:221-223,
\* App.tsx:144
Deselect ==
  /\ Turn
  /\ selection # NoSelection
  /\ selection' = NoSelection
  /\ UNCHANGED <<state, externalInsertText, resets>>

\* what the rewrite source can answer
Answers == {<<>>, <<HeSprinted>>, <<WS14, HeSprinted>>}

\* geminiService.ts:53-79: the trimmed answer; the selected text when the call
\* fails or the answer is empty
rewriteSelection(selectedText, answer, failed) ==
  IF failed \/ Trim(answer) = <<>> THEN selectedText ELSE Trim(answer)

\* App.tsx:22-37: the contents of the range give way to one text node
handleInlineReplace(newText) ==
  LET d == SubSeq(dom, 1, selection.from - 1) \o TxtSeq(newText)
             \o SubSeq(dom, selection.to + 1, Len(dom))
  IN /\ dom' = d
     /\ selection' = NoSelection
     /\ editorContent' = InnerText(d)
     \* the MutationObserver of Editor.tsx:128-134
     /\ cardPositions' = calculatePositions(suggestions, d)
     \* App.tsx:65-74: editorContent changed, the timeout is set anew
     /\ timer' = autoPartnerEnabled
     /\ UNCHANGED <<suggestions, isAnalyzing, requests, activeSuggestionIndex,
                    pendingInject, raf, autoPartnerEnabled>>

\* MagicMenu.tsx:27-40: the instruction is submitted and the answer written back
Rewrite(answer, failed) ==
  /\ Turn
  /\ selection # NoSelection
  /\ failed => answer = <<>>
  /\ handleInlineReplace(rewriteSelection(selection.text, answer, failed))
  /\ last' = [op |-> "replace", failed |-> failed, selected |-> selection.text]
  /\ UNCHANGED <<externalInsertText, resets>>

\* typing with nothing selected
TypeUnselected(tok) ==
  /\ selection = NoSelection
  /\ Type(tok)

NextRewrite ==
  \/ \E tok \in Alphabet : TypeUnselected(tok)
  \/ \E from \in 1..Len(dom), to \in 1..Len(dom) : Select(from, to)
  \/ Deselect
  \/ \E answer \in Answers, failed \in BOOLEAN : Rewrite(answer, failed)

SpecRewrite == Init /\ [][NextRewrite]_vars

(***************************************************************************)
(* The claims.                                                             *)
(***************************************************************************)
DiffViews(d) == {i \in 1..Len(d) : d[i].k = "open" /\ d[i].cls = "diff-view-container"}
Markers(d) == {i \in 1..Len(d) : d[i].k = "open" /\ d[i].cls = "critique-marker"}

\* the places at which needle occurs in text
Occurrences(text, needle) ==
  {i \in 1..Len(text) : i + Len(needle) - 1 <= Len(text)
                          /\ SubSeq(text, i, i + Len(needle) - 1) = needle}

\* the plain text the injection searches: markers and Diff Views stripped
CleanText(d) == PlainText(StripDiffs(StripMarkers(d, 1), 1))

\* the tags broken by an injection whose "<" is in the document as text
Broken(d) == Cardinality({i \in 1..Len(d) : d[i].k = "text" /\ d[i].s = LT})

\* the effect of Editor.tsx:53-92 injects the markers of a batch
InjectionStep == RunEffects /\ suggestions # <<>>

\* C1: at any instant at most one Diff View exists in the Document, so at most
\* one suggestion is in Review State DiffShown.
C1_AtMostOneDiffShown == Cardinality(DiffViews(dom)) <= 1

\* C2: when showDiff(b) acts while another suggestion a is DiffShown, a goes
\* back to Highlighted (a plain span holding a's originalText), a stays in the
\* active set, and only b is DiffShown afterwards.
C2_ShowDiffClosesTheOpenDiff ==
  [][\A a, b \in 0..1 :
       (a # b /\ a < Len(suggestions) /\ HasDiff(a) /\ CanShowDiff(b) /\ showDiffView(b))
       => /\ suggestions' = suggestions
          /\ GetElementById(dom', <<"diff", a>>) = 0
          /\ GetElementById(dom', <<"marker", a>>) # 0
          /\ TextContent(dom', GetElementById(dom', <<"marker", a>>))
               = suggestions[a + 1].originalText
          /\ \A i \in DiffViews(dom') : dom'[i].id = <<"diff", b>>]_vars

\* C3: showDiff(s) followed immediately by rejectDiff(s) leaves the plain text
\* of the Document, whitespace included, as it was before showDiff(s).
C3_ShowThenRejectRestoresText ==
  last.op = "show-reject" => PlainText(dom) = last.before

\* C4: showDiff(s) followed by acceptDiff(s) leaves the plain text as it was
\* before showDiff(s) except that the anchored occurrence of s.originalText is
\* replaced by the replacement text, nothing else added or removed; for the
\* batch ["He ran quickly" -> "He sprinted"] on "He ran quickly to the store."
\* the text becomes "He sprinted to the store." and the active set is empty.
C4_AcceptReplacesExactlyOnce ==
  last.op = "show-accept" =>
    /\ PlainText(dom) = last.expect
    /\ (last.before = <<HeRanQuickly, ToTheStore>> /\ Len(last.batch) = 1)
         => (PlainText(dom) = <<HeSprinted, ToTheStore>> /\ suggestions = <<>>)

\* C5: the injection changes markup only: with no Diff View open, the plain
\* text of the Document after the injection is its plain text before, also
\* when an originalText is a word that occurs in the markup.
C5_InjectionKeepsPlainText ==
  [][(InjectionStep /\ DiffViews(dom) = {}) => PlainText(dom') = PlainText(dom)]_vars

\* C6: when two suggestions of the batch share an originalText that occurs once
\* in the document, after the injection the first has an anchor, the second
\* has none (locate is null) and the second has no margin card.
C6_SharedTextOnceAnchorsFirstOnly ==
  [][\A i, j \in 0..1 :
       (/\ InjectionStep
        /\ i < j /\ j < Len(suggestions)
        /\ suggestions[i + 1].originalText = suggestions[j + 1].originalText
        /\ Cardinality(Occurrences(CleanText(dom), suggestions[i + 1].originalText)) = 1)
       => /\ Locate(dom', i) # 0
          /\ Locate(dom', j) = 0
          /\ \A c \in 1..Len(cardPositions') : cardPositions'[c].index # j]_vars

\* C7: each suggestion is anchored to the first occurrence of its originalText
\* that no earlier suggestion wraps: when two suggestions share an originalText
\* that occurs twice, the first wraps the first occurrence and the second the
\* second.
C7_SharedTextTwiceAnchorsBoth ==
  [][(/\ InjectionStep
      /\ Len(suggestions) = 2
      /\ suggestions[1].originalText = suggestions[2].originalText
      /\ PlainText(dom) = suggestions[1].originalText \o suggestions[1].originalText)
     => LET m0 == GetElementById(dom', <<"marker", 0>>)
            m1 == GetElementById(dom', <<"marker", 1>>)
        IN /\ m0 # 0 /\ m1 # 0
           /\ MatchClose(dom', m0) < m1
           /\ TextContent(dom', m0) = suggestions[1].originalText
           /\ TextContent(dom', m1) = suggestions[2].originalText]_vars

\* C8: the injection never matches inside the markup written for an earlier
\* suggestion: afterwards no marker span lies inside another marker span and
\* no piece of a wrapper tag has become text of the document.
C8_InjectionMatchesPlainTextOnly ==
  [][(InjectionStep /\ Broken(dom) = 0)
     => /\ \A m \in Markers(dom') : Parent(dom', m) \notin Markers(dom')
        /\ Broken(dom') = 0]_vars

\* C9: Rejected is terminal like Accepted: after rejectDiff(s) on a DiffShown
\* suggestion s, s is no longer in the active set.
C9_RejectRemovesTheSuggestion ==
  [][\A i \in 0..1 :
       (CanResolve(i) /\ rejectSuggestion(i))
       => \A k \in 1..Len(suggestions') : suggestions'[k].uid # suggestions[i + 1].uid]_vars

\* C10: acceptDiff(s) on a DiffShown suggestion removes exactly s from the
\* active set, the others staying in their order, reports the new plain text
\* of the Document through onContentChange, and leaves no card active.
C10_AcceptRemovesExactlyOne ==
  [][\A i \in 0..1 :
       (CanResolve(i) /\ acceptSuggestion(i))
       => /\ suggestions' = RemoveAt(suggestions, i + 1)
          /\ editorContent' = InnerText(dom')
          /\ activeSuggestionIndex' = NULL]_vars

\* C10 happens: the first of two suggestions has just been accepted
C10_Witness ==
  /\ last.op = "show-accept" /\ last.index = 0 /\ Len(last.batch) = 2
  /\ pendingInject /\ Len(suggestions) = 1 /\ suggestions[1].uid = 1

\* the index a suggestion had before the suggestion at removed left the list
OldIndex(k, removed) == IF k < removed THEN k ELSE k + 1

\* no marker lies in another marker, no tag is broken and no Diff View is open
WellFormed(d) ==
  /\ \A m \in Markers(d) : Parent(d, m) \notin Markers(d)
  /\ Broken(d) = 0
  /\ DiffViews(d) = {}

\* C11: after acceptDiff(s) and the injection it causes, every other
\* suggestion that had an anchor around its originalText before still has an
\* anchor around the same occurrence of it: the text in front of the anchor
\* is the same, also when the replacement text of s holds that originalText.
C11_AcceptKeepsOtherAnchors ==
  [][(InjectionStep /\ last.op = "show-accept" /\ WellFormed(dom))
     => \A k \in 0..(Len(suggestions) - 1) :
          LET before == Locate(dom, OldIndex(k, last.index))
              after == Locate(dom', k)
          IN (before # 0 /\ TextContent(dom, before) = suggestions[k + 1].originalText)
             => /\ after # 0
                /\ TextContent(dom', after) = suggestions[k + 1].originalText
                /\ TextOf(dom', 1, after - 1) = TextOf(dom, 1, before - 1)]_vars

\* C12: when the analysis call fails, the active suggestion set after the
\* request completes is the active set before it: nothing is cleared.
C12_FailureKeepsTheActiveSet ==
  [][\A r \in 1..Len(requests) :
       CompleteAnalysis(r, <<>>, TRUE) => suggestions' = suggestions]_vars

\* C13: a completion of an analysis call cancels no other call in flight, and
\* the active suggestion set after it is the batch it delivered: of two calls
\* in flight together, whichever lands last decides the active set, whatever
\* the order in which they were made.
C13_LastLandingWins ==
  [][\A r \in 1..Len(requests), b \in Batches \cup {<<>>}, failed \in BOOLEAN :
       CompleteAnalysis(r, b, failed)
       => /\ suggestions' = b
          /\ requests' = RemoveAt(requests, r)]_vars

\* C13 happens: the button's call and then the timer's were in flight together,
\* the timer's landed first, and the button's batch is the active set
C13_Witness ==
  /\ last.op = "analysis" /\ last.landed = <<"timer", "button">> /\ last.left = 0
  /\ last.batch # <<>> /\ suggestions = last.batch

\* C14: when a batch replaces the active set, no Margin Card Position is
\* computed from the new list while the anchors in the Document are still those
\* of the old batch, and the injection that follows leaves none of the old
\* anchors behind, also when the new batch is empty.
C14_BatchReplacementIsAtomic ==
  [][/\ \A r \in 1..Len(requests), b \in Batches \cup {<<>>}, failed \in BOOLEAN :
          (CompleteAnalysis(r, b, failed) /\ dom' = dom)
          => \A c \in 1..Len(cardPositions') :
               /\ cardPositions'[c].index < Len(suggestions)
               /\ cardPositions'[c].suggestion = suggestions[cardPositions'[c].index + 1]
     /\ (RunEffects /\ last.op = "analysis")
          => \A i \in Markers(dom') \cup DiffViews(dom') :
               /\ dom'[i].id[2] < Len(suggestions)
               /\ TextContent(dom', i) = suggestions[dom'[i].id[2] + 1].originalText]_vars

\* C15: the Margin Card Position list is sorted by ascending vertical offset
\* of the anchors, whatever the order of the suggestions in the batch.
C15_PositionsSortedByOffset ==
  \A c \in 1..(Len(cardPositions) - 1) : cardPositions[c].top <= cardPositions[c + 1].top


\* the list holds exactly one entry for each suggestion of suggs that Locate
\* finds in d, the entry of index i carrying suggs[i + 1], and no other entry
OnePerLocated(positions, suggs, d) ==
  /\ \A c \in 1..Len(positions) :
       /\ positions[c].index \in 0..(Len(suggs) - 1)
       /\ positions[c].suggestion = suggs[positions[c].index + 1]
  /\ \A i \in 0..(Len(suggs) - 1) :
       Cardinality({c \in 1..Len(positions) : positions[c].index = i})
         = IF Locate(d, i) # 0 THEN 1 ELSE 0

\* C16: every recomputation yields exactly one Margin Card Position for each
\* active suggestion that has a marker span or a Diff View in the Document,
\* and none for a suggestion that Locate does not find; the cards are
\* rendered one per entry of that list. The recomputations are the ones that
\* set the list and every callback of an animation frame.
C16_OnePositionPerLocatedSuggestion ==
  [][/\ cardPositions' # cardPositions
          => OnePerLocated(cardPositions', suggestions', dom')
     /\ RunFrame => \A q \in 1..Len(raf) :
          OnePerLocated(calculatePositions(raf[q], dom), suggestions, dom)]_vars

\* C17: once no further event fires and every scheduled effect and animation
\* frame callback has run, the Margin Card Position list is the one computed
\* from the latest Document and the latest active set, whatever the order of
\* the recomputations scheduled for one frame was
C17_PositionsEventuallyConsistent ==
  Idle => cardPositions = calculatePositions(suggestions, dom)


\* C18: at most one Margin Card is active, and whenever the active index is i
\* a Diff View of suggestion i is open in the Document, after every operation,
\* batch replacement included
C18_ActiveCardHasItsDiffView ==
  /\ Cardinality({c \in 1..Len(cardPositions) :
                    cardPositions[c].index = activeSuggestionIndex}) <= 1
  /\ activeSuggestionIndex # NULL
       => /\ activeSuggestionIndex < Len(suggestions)
          /\ GetElementById(dom, <<"diff", activeSuggestionIndex>>) # 0

\* showDiffView(index) is called: a click on Review or on a marker span
ShowDiffCalled(index) ==
  \/ \E c \in 1..Len(cardPositions) : cardPositions[c].index = index /\ ClickReview(c)
  \/ \E at \in 1..Len(dom) : dom[at].k = "open" /\ dom[at].index = index /\ ClickMarker(at)

\* the suggestion has no marker span in the Document
NoSpan(d, index) == GetElementById(d, <<"marker", index>>) = 0

\* the text of its marker span is no longer the originalText
StaleSpan(d, suggs, index) ==
  /\ ~NoSpan(d, index)
  /\ TextContent(d, GetElementById(d, <<"marker", index>>)) # suggs[index + 1].originalText

\* C19: showDiffView on a suggestion without a marker span, or whose span no
\* longer holds exactly its originalText, changes nothing: the Document, the
\* active set, the active card and the positions are as before
C19_ShowDiffRefusedIsNoOp ==
  [][\A i \in 0..(Len(suggestions) - 1) :
       (ShowDiffCalled(i) /\ (NoSpan(dom, i) \/ StaleSpan(dom, suggestions, i)))
         => UNCHANGED program]_vars

\* Review was clicked on a card whose marker span had lost its text
C19_Witness ==
  /\ last.op = "show-refused"
  /\ last.index < Len(suggestions)
  /\ StaleSpan(dom, suggestions, last.index)


\* the originalText of s occurs nowhere in the text of the Document
Absent(d, s) == Occurrences(CleanText(d), s.originalText) = {}

\* a text that occurs in no Document and in no markup
NoText == <<"\\0">>

\* the batch with suggestion index left out of the injection, the others
\* keeping their indices
Skipped(suggs, index) == [suggs EXCEPT ![index + 1].originalText = NoText]

\* C20: a suggestion whose originalText is absent from the Document when the
\* batch is injected is skipped silently: it stays in the active set, gets no
\* marker span and no margin card, and the other suggestions of the batch are
\* injected as they would be without it
C20_AbsentTextIsSkipped ==
  [][(InjectionStep /\ Broken(dom) = 0)
     => \A i \in 0..(Len(suggestions) - 1) :
          Absent(dom, suggestions[i + 1])
            => /\ suggestions' = suggestions
               /\ GetElementById(dom', <<"marker", i>>) = 0
               /\ \A c \in 1..Len(cardPositions') : cardPositions'[c].index # i
               /\ dom' = Inject(dom, Skipped(suggestions, i))]_vars


\* the user deletes the whole text of the marker span of suggestion index
DeletesAnchoredText(index) ==
  \E at \in 1..Len(dom), dropEmpty \in BOOLEAN :
    /\ dom[at].k = "text"
    /\ GetElementById(dom, <<"marker", index>>) # 0
    /\ Parent(dom, at) = GetElementById(dom, <<"marker", index>>)
    /\ TextContent(dom, GetElementById(dom, <<"marker", index>>)) = <<dom[at].s>>
    /\ Delete(at, dropEmpty)

HasCard(positions, index) == \E c \in 1..Len(positions) : positions[c].index = index

\* C21: when the user deletes the anchored text of one suggestion while
\* another is DiffShown, the recomputation drops the card of the first, keeps
\* the card of the second at its Diff View and leaves it DiffShown with its
\* card active; the first suggestion stays in the active set
C21_DeleteAnchorWhileDiffShown ==
  [][\A i, j \in 0..(Len(suggestions) - 1) :
       (/\ i # j
        /\ HasDiff(i) /\ activeSuggestionIndex = i
        /\ HasCard(cardPositions, i) /\ HasCard(cardPositions, j)
        /\ DeletesAnchoredText(j))
         => /\ ~HasCard(cardPositions', j)
            /\ GetElementById(dom', <<"diff", i>>) # 0
            /\ \E c \in 1..Len(cardPositions') :
                 /\ cardPositions'[c].index = i
                 /\ cardPositions'[c].suggestion = suggestions[i + 1]
                 /\ cardPositions'[c].top = RelativeTop(dom', GetElementById(dom', <<"diff", i>>))
            /\ activeSuggestionIndex' = i
            /\ suggestions' = suggestions]_vars

\* C22: a recomputation of the positions never changes the Document, and a
\* change of the Document that leaves the active set alone is followed by
\* recomputations only: the injection effect is not run again, and once the
\* callbacks of the frame have run nothing is left to run
C22_RecomputationNeverMutates ==
  [][/\ (RunFrame \/ Resize)
          => (dom' = dom /\ pendingInject' = pendingInject /\ raf' \in {raf, <<>>})
     /\ (dom' # dom /\ suggestions' = suggestions) => ~pendingInject'
     /\ RunFrame => raf' = <<>>]_vars

\* the user edited a Document that has margin cards, and everything has run
C22_Witness ==
  /\ last = NoOp
  /\ suggestions # <<>>
  /\ cardPositions # <<>>
  /\ Idle

\* C23: a text-insertion request appends the text as a new block at the end
\* of the Document, leaves the active set, every marker span and Diff View
\* and the active card as they are, reports the new plain text and recomputes
\* the Margin Card Positions
C23_InsertAppendsTheText ==
  [][\A text \in InsertTexts :
       (RequestInsert(text) /\ text # externalInsertText)
         => /\ dom' = dom \o <<POpen>> \o TxtSeq(text) \o <<Close("p")>>
            /\ suggestions' = suggestions
            /\ activeSuggestionIndex' = activeSuggestionIndex
            /\ editorContent' = InnerText(dom')
            /\ cardPositions' = calculatePositions(suggestions, dom')]_vars


\* C24: whenever the batch has changed, the empty batch included, the rescan
\* strips every marker span and Diff View, a Diff View becoming its preserved
\* original text, and afterwards every marker span carries the index that the
\* suggestion whose text it wraps has in the new batch
C24_RescanOnEveryBatchChange ==
  [][RunEffects
       => /\ DiffViews(dom') = {}
          /\ \A v \in DiffViews(dom) :
               dom[v].orig # <<>> => Occurrences(PlainText(dom'), dom[v].orig) # {}
          /\ \A m \in Markers(dom') :
               /\ dom'[m].index \in 0..(Len(suggestions) - 1)
               /\ dom'[m].id = <<"marker", dom'[m].index>>
               /\ TextContent(dom', m) = suggestions[dom'[m].index + 1].originalText]_vars

\* acceptSuggestion(index) or rejectSuggestion(index) is called
ResolveCalled(index) ==
  \E c \in 1..Len(cardPositions) :
    cardPositions[c].index = index /\ (ClickAccept(c) \/ ClickReject(c))

\* C25: a suggestion is accepted or rejected only from DiffShown. Accept and
\* Reject on a suggestion without a Diff View change nothing; they are offered
\* on the active card only, and a card that is not active offers Review only;
\* the active set loses a suggestion by a click only when its Diff View is open
C25_ResolveOnlyFromDiffShown ==
  [][/\ \A i \in Indices :
          /\ (ResolveCalled(i) /\ ~HasDiff(i)) => UNCHANGED program
          /\ ResolveCalled(i) => activeSuggestionIndex = i
          /\ (\E c \in 1..Len(cardPositions) : cardPositions[c].index = i /\ ClickReview(c))
               => activeSuggestionIndex # i
     /\ (dom' # dom /\ suggestions' # suggestions)
          => /\ activeSuggestionIndex \in 0..(Len(suggestions) - 1)
             /\ HasDiff(activeSuggestionIndex)
             /\ suggestions' = handleSuggestionHandled(suggestions,
                                 suggestions[activeSuggestionIndex + 1])]_vars

\* Accept or Reject was clicked on the active card of a suggestion that has a
\* marker span and no Diff View
C25_Witness ==
  /\ last.op \in {"accept-refused", "reject-refused"}
  /\ last.index < Len(suggestions)
  /\ activeSuggestionIndex = last.index
  /\ ~HasDiff(last.index)
  /\ HasCard(cardPositions, last.index)

\* the element that starts at i, with everything in it
Element(d, i) == SubSeq(d, i, MatchClose(d, i))

Forms(d, index) ==
  {n \in 1..Len(d) : d[n].k = "open" /\ d[n].id \in {<<"marker", index>>, <<"diff", index>>}}

\* C27: at any time each active suggestion has at most one on-screen form in
\* the Document, a marker span or a Diff View with its index, never both and
\* never two of a kind
C27_AtMostOneFormPerSuggestion ==
  \A i \in 0..(Len(suggestions) - 1) : Cardinality(Forms(dom, i)) <= 1


\* a call in flight has completed in this step
Completed == Len(requests') < Len(requests)

\* C28: a successful completion of an analysis call replaces the active
\* suggestion set wholesale: after it the active set is exactly the delivered
\* batch, a whole batch of the analysis, with nothing of the previous set kept
\* or merged into it.
C28_CompletionReplacesWholesale ==
  [][(Completed /\ ~last'.failed)
     => /\ last'.op = "analysis"
        /\ suggestions' = last'.batch
        /\ suggestions' \in Batches \cup {<<>>}]_vars

\* C28 happens: a batch has just replaced a different one, whose span is still
\* in the Document
C28_Witness ==
  /\ last.op = "analysis" /\ ~last.failed /\ last.batch # <<>>
  /\ suggestions = last.batch
  /\ pendingInject
  /\ \E n \in 1..Len(dom) :
       /\ dom[n].k = "open" /\ dom[n].cls = "critique-marker"
       /\ dom[n].index < Len(suggestions)
       /\ TextContent(dom, n) # suggestions[dom[n].index + 1].originalText


\* C29: whenever the Document holds the Diff View of an active suggestion, the
\* suggestion can be resolved: it has a card, and the card is the active one,
\* the one that offers Accept and Reject.
C29_DiffViewCanBeResolved ==
  Idle => \A i \in 0..(Len(suggestions) - 1) :
            GetElementById(dom, <<"diff", i>>) # 0
            => (activeSuggestionIndex = i /\ HasCard(cardPositions, i))


\* C30: once the effects of a render have run, every span and Diff View in the
\* Document carries the index of a suggestion of the active set; when the
\* active set is empty the Document holds no span and no Diff View.
C30_FormsBelongToActiveSet ==
  Idle => \A n \in Markers(dom) \cup DiffViews(dom) :
            \E i \in 0..(Len(suggestions) - 1) : n \in Forms(dom, i)


\* the texts the suggestions of the analysis anchor to
OriginalTexts == {b[i].originalText : <<b, i>> \in {<<b, i>> \in Batches \X (1..2) : i <= Len(b)}}

\* the text the anchor of a card wraps: the text of the span, the
\* data-original attribute of the Diff View
Wrapped(d, n) == IF d[n].cls = "diff-view-container" THEN d[n].orig ELSE TextContent(d, n)

\* the entry shows the suggestion at an anchor that wraps the text of another
Mispaired(pos, d) ==
  LET n == Locate(d, pos.index)
  IN /\ n # 0
     /\ Wrapped(d, n) \in OriginalTexts
     /\ Wrapped(d, n) # pos.suggestion.originalText

\* C31: every Margin Card Position entry pairs a suggestion with the anchor of
\* that suggestion: no entry holds a suggestion other than the one whose text
\* the anchor of its index wraps, after every recomputation, the one scheduled
\* by acceptSuggestion included.
C31_CardsPairedWithOwnAnchor ==
  \A c \in 1..Len(cardPositions) : ~Mispaired(cardPositions[c], dom)


\* an analysis call that went to the network has not completed yet
Outstanding == \E r \in 1..Len(requests) : requests[r].long

\* C32: isAnalyzing is true whenever an analysis call is outstanding, also when
\* the call of the Critique button and the call of the Auto-Critique timer
\* overlap, and it is false once every call has completed.
C32_AnalyzingWhileOutstanding ==
  /\ Outstanding => isAnalyzing
  /\ requests = <<>> => ~isAnalyzing


\* C33: every insert request of the chat panel appends its text to the
\* Document once, whatever the requests before it: also a request made with the
\* same text, or with another text, before the reset of the request before it
\* has run.
C33_EveryInsertAppendsOnce ==
  [][\A text \in InsertTexts :
       RequestInsert(text) => dom' = InsertAdjacentHTML(dom, text)]_vars


C35_FailedRewriteKeepsText ==
  [][Rewrite(<<>>, TRUE) => PlainText(dom') = PlainText(dom)]_vars
====
